---- MODULE Spec2Model ----
(***************************************************************************)
(* openclaw-doctor: the check/result/fix protocol and its orchestrator.    *)
(*                                                                         *)
(* The model follows src/src/openclaw_doctor/main.py (run_all_checks,      *)
(* doctor, check), checks/base.py (CheckStatus, CheckResult) and the seven *)
(* registered probes of checks/__init__.py.  What a probe reads from the   *)
(* machine (installed tools, files, network) is the variable env: one      *)
(* facet per probe, fixed the first time a probe observes it and changed   *)
(* afterwards only by the fix operations that write to the machine.        *)
(***************************************************************************)
EXTENDS Integers, Sequences, FiniteSets, TLC

VARIABLES
    cmd,          \* "doctor" or "check": the command invoked
    fix,          \* the --fix flag
    json_output,  \* the --json flag (doctor only)
    name,         \* the NAME argument of check, a sequence of characters
    pc,           \* position of the command in its code
    env,          \* the machine: facet of each probe, Unobserved until first read
    platform,     \* sys.platform, Unobserved until first read
    results,      \* list[CheckResult] of the initial pass
    passed,       \* counters of run_all_checks
    warnings,
    failed,
    summary,      \* output of the JSON branch: "checks", and the counts of "summary"
    fixable_results, \* the filtered list of the fix pass
    k,            \* position of the fix pass in fixable_results (1-based)
    check,        \* the probe instance held in the local `check`
    result,       \* the local `result` of the check command
    nInst,        \* number of probe instances created so far
    trace,        \* calls made on probes and guidance printed, in order
    effects,      \* what fix operations did to the machine
    exit_code     \* process exit status, NotExited while running

vars == <<cmd, fix, json_output, name, pc, env, platform, results, passed,
          warnings, failed, summary, fixable_results, k, check, result,
          nInst, trace, effects, exit_code>>

(***************************************************************************)
(* checks/base.py: CheckStatus and CheckResult                             *)
(***************************************************************************)
PASS == "pass"
WARN == "warn"
FAIL == "fail"
SKIP == "skip"

CheckStatus == {PASS, WARN, FAIL, SKIP}

\* details=None
None == <<>>

\* CheckResult(name, status, message, details=None, can_auto_fix=False,
\*             fix_suggestions=[])
CheckResult(n, s, m, d, caf, sugg) ==
    [name |-> n, status |-> s, message |-> m, details |-> d,
     can_auto_fix |-> caf, fix_suggestions |-> sugg]

\* a plausible slip: a warning not counted as passed
Passed_pass_only(r) == r.status = PASS

\* CheckResult.passed
Passed(r) == r.status \in {PASS, WARN}

\* CheckResult.is_warning
IsWarning(r) == r.status = WARN

\* CheckStatus.value
StatusValue(st) ==
    CASE st = PASS -> "pass"
      [] st = WARN -> "warn"
      [] st = FAIL -> "fail"
      [] st = SKIP -> "skip"

\* a plausible slip: the details left out of the mapping
to_dict_without_details(r) ==
    << <<"name", r.name>>,
       <<"status", StatusValue(r.status)>>,
       <<"message", r.message>>,
       <<"details", None>>,
       <<"can_auto_fix", r.can_auto_fix>>,
       <<"fix_suggestions", r.fix_suggestions>> >>

\* CheckResult.to_dict: the mapping as its (key, value) pairs in insertion
\* order
to_dict(r) ==
    << <<"name", r.name>>,
       <<"status", StatusValue(r.status)>>,
       <<"message", r.message>>,
       <<"details", r.details>>,
       <<"can_auto_fix", r.can_auto_fix>>,
       <<"fix_suggestions", r.fix_suggestions>> >>

(***************************************************************************)
(* The machine as the probes see it.                                       *)
(***************************************************************************)
Unobserved == "unobserved"
NotExited == 0 - 1
NoCheck == [kind |-> "none"]
NoResult == [name |-> "none"]
NoSummary == [passed |-> NotExited, warnings |-> NotExited, failed |-> NotExited]

Platforms == {"linux", "darwin", "win32"}

\* node: not on PATH; on PATH but `node --version` timed out, failed or
\* printed no version; a version below 18; a version >= 18
NodeFacts == {"absent", "noversion", "old", "ok"}

\* openclaw: not on PATH; on PATH but no version; installed
OpenClawFacts == {"absent", "noversion", "ok"}

\* docker: not installed (or no version); installed, daemon down; running
\* with and without compose
DockerFacts == {"absent", "stopped", "running", "running_nocompose"}

\* SystemCheck thresholds
MIN_RAM_GB == 2
RECOMMENDED_RAM_GB == 4
MIN_DISK_GB == 20
MIN_CPU_CORES == 2

\* system: enough of everything; RAM between minimum and recommended; fewer
\* cores than recommended; free disk below minimum; psutil / disk_usage
\* raising OSError
SystemFacts == {"ok", "ram_low", "cpu_low", "disk_low", "oserror"}

\* config file: none at any searched path; exists but unreadable (OSError);
\* invalid YAML/JSON or undecodable bytes; empty; a scalar such as `42`;
\* a mapping without provider; a valid mapping
ConfigFacts == {"none", "unreadable", "syntax", "empty", "scalar",
                "missing", "valid"}

\* API keys: a key that fails its pattern; no key anywhere; a key found
APIKeysFacts == {"invalid", "nokeys", "found"}

\* network: no endpoint reachable; some; all
NetworkFacts == {"unreachable", "partial", "reachable"}

\* subprocess.TimeoutExpired / httpx.TimeoutException: the call the facet
\* names does not answer within its timeout of 10 seconds.  For Docker:
\* `docker --version`; `docker info`; `docker compose version` with the
\* daemon running and no docker-compose (v1) on PATH
NodeTimeoutFacts == {"version_timeout"}
OpenClawTimeoutFacts == {"version_timeout"}
DockerTimeoutFacts == {"version_timeout", "info_timeout", "compose_timeout"}
\* the facets of NetworkFacts in which a request timed out
NetworkTimeoutFacts == {"unreachable", "partial"}

(***************************************************************************)
(* What run returns: a CheckResult and the instance state it leaves, or an *)
(* exception that leaves run.                                              *)
(***************************************************************************)
Returned(r, st) == [raised |-> FALSE, result |-> r, st |-> st]
Raised(st) == [raised |-> TRUE, result |-> NoResult, st |-> st]

\* tuple comparison of Python, on version triples
TupleLess(a, b) ==
    \/ a[1] < b[1]
    \/ a[1] = b[1] /\ a[2] < b[2]
    \/ a[1] = b[1] /\ a[2] = b[2] /\ a[3] < b[3]

(***************************************************************************)
(* checks/nodejs.py                                                        *)
(***************************************************************************)
NodeJS_name == "Node.js"
min_version == <<18, 0, 0>>

NodeJS_init == [path |-> FALSE, version |-> None]

\* _get_node_info: (path found, version triple or None)
NodeJS_get_node_info(fact) ==
    CASE fact = "absent"    -> [path |-> FALSE, version |-> None]
      [] fact = "noversion" -> [path |-> TRUE, version |-> None]
      [] fact = "version_timeout" -> [path |-> TRUE, version |-> None]
      [] fact = "old"       -> [path |-> TRUE, version |-> <<16, 20, 2>>]
      [] fact = "ok"        -> [path |-> TRUE, version |-> <<20, 10, 0>>]

NodeJS_install_suggestions == <<"install node", "or use nvm">>

NodeJS_run(fact) ==
    LET st == NodeJS_get_node_info(fact) IN
    IF ~st.path THEN
        Returned(CheckResult(NodeJS_name, FAIL, "Node.js is not installed",
                             <<"requires Node.js >= 18.x">>, TRUE,
                             NodeJS_install_suggestions), st)
    ELSE IF st.version = None THEN
        Returned(CheckResult(NodeJS_name, WARN, "version could not be determined",
                             <<"Path">>, FALSE,
                             <<"run node --version manually">>), st)
    ELSE IF TupleLess(st.version, min_version) THEN
        Returned(CheckResult(NodeJS_name, FAIL, "below minimum",
                             None, TRUE, NodeJS_install_suggestions), st)
    ELSE
        Returned(CheckResult(NodeJS_name, PASS, "Node.js installed",
                             <<"Path">>, FALSE, <<>>), st)

(***************************************************************************)
(* checks/openclaw.py                                                      *)
(***************************************************************************)
OpenClaw_name == "OpenClaw"

OpenClaw_init == [path |-> FALSE, version |-> FALSE]

OpenClaw_get_openclaw_info(fact) ==
    CASE fact = "absent"    -> [path |-> FALSE, version |-> FALSE]
      [] fact = "noversion" -> [path |-> TRUE, version |-> FALSE]
      [] fact = "version_timeout" -> [path |-> TRUE, version |-> FALSE]
      [] fact = "ok"        -> [path |-> TRUE, version |-> TRUE]

OpenClaw_run(fact) ==
    LET st == OpenClaw_get_openclaw_info(fact) IN
    IF ~st.path THEN
        Returned(CheckResult(OpenClaw_name, FAIL, "OpenClaw CLI is not installed",
                             None, TRUE,
                             <<"run the installer", "curl | bash", "or visit">>), st)
    ELSE IF ~st.version THEN
        Returned(CheckResult(OpenClaw_name, WARN, "version could not be determined",
                             <<"Path">>, FALSE,
                             <<"run openclaw --version manually">>), st)
    ELSE
        Returned(CheckResult(OpenClaw_name, PASS, "OpenClaw installed",
                             <<"Path">>, FALSE, <<>>), st)

(***************************************************************************)
(* checks/docker.py                                                        *)
(***************************************************************************)
Docker_name == "Docker"

Docker_init == [docker_version |-> FALSE, compose_version |-> FALSE,
                docker_running |-> FALSE]

\* _check_docker and _check_compose
Docker_check(fact) ==
    CASE fact = "absent" ->
            [docker_version |-> FALSE, compose_version |-> FALSE,
             docker_running |-> FALSE]
      [] fact = "stopped" ->
            [docker_version |-> TRUE, compose_version |-> TRUE,
             docker_running |-> FALSE]
      [] fact = "running" ->
            [docker_version |-> TRUE, compose_version |-> TRUE,
             docker_running |-> TRUE]
      [] fact = "running_nocompose" ->
            [docker_version |-> TRUE, compose_version |-> FALSE,
             docker_running |-> TRUE]
      [] fact = "version_timeout" ->
            [docker_version |-> FALSE, compose_version |-> TRUE,
             docker_running |-> TRUE]
      [] fact = "info_timeout" ->
            [docker_version |-> TRUE, compose_version |-> TRUE,
             docker_running |-> FALSE]
      [] fact = "compose_timeout" ->
            [docker_version |-> TRUE, compose_version |-> FALSE,
             docker_running |-> TRUE]

Docker_install_suggestions == <<"install docker", "or via package manager">>

\* a plausible slip: a missing Docker reported like a missing Node.js
Docker_run_absent_fails(fact) ==
    LET st == Docker_check(fact) IN
    IF ~st.docker_version THEN
        Returned(CheckResult(Docker_name, FAIL, "Docker is not installed",
                             None, TRUE, Docker_install_suggestions), st)
    ELSE IF ~st.docker_running THEN
        Returned(CheckResult(Docker_name, WARN, "installed but not running",
                             None, TRUE,
                             <<"start Docker Desktop or the daemon">>), st)
    ELSE
        Returned(CheckResult(Docker_name, PASS, "Docker running",
                             <<"Docker">>, FALSE, <<>>), st)

\* DockerCheck.run
Docker_run(fact) ==
    LET st == Docker_check(fact) IN
    IF ~st.docker_version THEN
        Returned(CheckResult(Docker_name, WARN, "Docker is not installed (optional)",
                             <<"only required for server deployments">>, FALSE,
                             Docker_install_suggestions), st)
    ELSE IF ~st.docker_running THEN
        Returned(CheckResult(Docker_name, WARN, "installed but not running",
                             None, TRUE,
                             <<"start Docker Desktop or the daemon">>), st)
    ELSE
        Returned(CheckResult(Docker_name, PASS, "Docker running",
                             IF st.compose_version THEN <<"Docker, Compose">>
                             ELSE <<"Docker (Compose not found)">>,
                             FALSE, <<>>), st)

(***************************************************************************)
(* checks/system.py                                                        *)
(***************************************************************************)
System_name == "System"

System_init == [ram_gb |-> 0, disk_gb |-> 0, cpu_cores |-> 0,
                issues |-> <<>>, warnings |-> <<>>]

\* _get_suggestions
System_get_suggestions(st) ==
    (IF st.ram_gb < RECOMMENDED_RAM_GB THEN <<"consider upgrading RAM">> ELSE <<>>)
    \o (IF st.disk_gb < MIN_DISK_GB
        THEN <<"free up disk space by:", "removing", "clearing", "moving">>
        ELSE <<>>)

\* psutil.virtual_memory, shutil.disk_usage, psutil.cpu_count: RAM (GB),
\* free disk (GB), cores
System_measure(fact) ==
    CASE fact = "ok"       -> [ram |-> 8, disk |-> 50, cpu |-> 4]
      [] fact = "ram_low"  -> [ram |-> 3, disk |-> 50, cpu |-> 4]
      [] fact = "cpu_low"  -> [ram |-> 8, disk |-> 50, cpu |-> 1]
      [] fact = "disk_low" -> [ram |-> 8, disk |-> 10, cpu |-> 4]

System_run(fact) ==
    IF fact = "oserror" THEN Raised(System_init)
    ELSE
    LET m == System_measure(fact)
        ramIssues == IF m.ram < MIN_RAM_GB THEN <<"RAM below minimum">> ELSE <<>>
        ramWarn   == IF m.ram >= MIN_RAM_GB /\ m.ram < RECOMMENDED_RAM_GB
                     THEN <<"RAM below recommended">> ELSE <<>>
        diskIssues == IF m.disk < MIN_DISK_GB THEN <<"Disk below minimum">> ELSE <<>>
        cpuWarn   == IF m.cpu < MIN_CPU_CORES THEN <<"CPU below recommended">> ELSE <<>>
        st == [ram_gb |-> m.ram, disk_gb |-> m.disk, cpu_cores |-> m.cpu,
               issues |-> ramIssues \o diskIssues,
               warnings |-> ramWarn \o cpuWarn]
    IN
    IF st.issues # <<>> THEN
        Returned(CheckResult(System_name, FAIL, "does not meet minimum requirements",
                             st.issues \o st.warnings, FALSE,
                             System_get_suggestions(st)), st)
    ELSE IF st.warnings # <<>> THEN
        Returned(CheckResult(System_name, WARN, "meets minimum requirements",
                             st.warnings, FALSE,
                             System_get_suggestions(st)), st)
    ELSE
        Returned(CheckResult(System_name, PASS, "System requirements met",
                             None, FALSE, <<>>), st)

(***************************************************************************)
(* checks/config.py                                                        *)
(***************************************************************************)
Config_name == "Config"

\* _config_path None, _config None, _missing_fields []
Config_init == [config_path |-> FALSE, config |-> "None", missing_fields |-> <<>>]

\* _find_config: whether a file exists at one of the searched paths
Config_find_config(fact) == fact # "none"

\* _parse_config: "ValueError" for invalid JSON/YAML (UnicodeDecodeError is a
\* ValueError too), "OSError" leaves the call, otherwise the parsed content
Config_parse_config(fact) ==
    CASE fact = "unreadable" -> "OSError"
      [] fact = "syntax"     -> "ValueError"
      [] fact = "empty"      -> "None"
      [] fact = "scalar"     -> "int"
      [] fact = "missing"    -> "dict_without_provider"
      [] fact = "valid"      -> "dict"

\* _validate_config: `field not in config` raises TypeError on an int
Config_validate_config(config) ==
    [raised  |-> config = "int",
     missing |-> IF config = "dict_without_provider" THEN <<"provider">> ELSE <<>>]

Config_run(fact) ==
    LET found == Config_find_config(fact) IN
    IF ~found THEN
        Returned(CheckResult(Config_name, WARN, "No OpenClaw config file found",
                             <<"will be created during setup">>, TRUE,
                             <<"run openclaw init", "or create config.yaml">>),
                 [Config_init EXCEPT !.config_path = FALSE])
    ELSE
    LET parsed == Config_parse_config(fact)
        st0 == [Config_init EXCEPT !.config_path = TRUE]
    IN
    IF parsed = "OSError" THEN Raised(st0)
    ELSE IF parsed = "ValueError" THEN
        Returned(CheckResult(Config_name, FAIL, "Config file has syntax errors",
                             <<"Invalid YAML">>, FALSE,
                             <<"fix the syntax errors", "use a validator">>), st0)
    ELSE
    LET st1 == [st0 EXCEPT !.config = parsed] IN
    IF parsed = "None" THEN
        Returned(CheckResult(Config_name, WARN, "Config file is empty",
                             <<"Path">>, TRUE,
                             <<"add configuration or run openclaw init">>), st1)
    ELSE
    LET v == Config_validate_config(parsed) IN
    IF v.raised THEN Raised(st1)
    ELSE
    LET st2 == [st1 EXCEPT !.missing_fields = v.missing] IN
    IF v.missing # <<>> THEN
        Returned(CheckResult(Config_name, WARN, "Config missing fields",
                             <<"Path">>, FALSE,
                             <<"add the missing fields", "run openclaw init">>), st2)
    ELSE
        Returned(CheckResult(Config_name, PASS, "Configuration valid",
                             <<"Path">>, FALSE, <<>>), st2)

(***************************************************************************)
(* checks/api_keys.py                                                      *)
(***************************************************************************)
APIKeys_name == "API Keys"

APIKeys_init == [found_keys |-> <<>>, invalid_keys |-> <<>>]

\* _check_env_keys, _check_env_file, _check_config_keys
APIKeys_check(fact) ==
    CASE fact = "invalid" -> [found_keys |-> <<>>, invalid_keys |-> <<"OPENAI_API_KEY">>]
      [] fact = "nokeys"  -> [found_keys |-> <<>>, invalid_keys |-> <<>>]
      [] fact = "found"   -> [found_keys |-> <<"ANTHROPIC_API_KEY">>, invalid_keys |-> <<>>]

APIKeys_run(fact) ==
    LET st == APIKeys_check(fact) IN
    IF st.invalid_keys # <<>> THEN
        Returned(CheckResult(APIKeys_name, WARN, "Some API keys appear invalid",
                             <<"malformed or old format">>, FALSE,
                             <<"verify your keys", "get new keys">>), st)
    ELSE IF st.found_keys = <<>> THEN
        Returned(CheckResult(APIKeys_name, WARN, "No AI provider API keys found",
                             <<"requires at least one key">>, TRUE,
                             <<"set environment variable", "or create .env",
                               "or add to config.yaml">>), st)
    ELSE
        Returned(CheckResult(APIKeys_name, PASS, "API keys configured",
                             <<"Found">>, FALSE, <<>>), st)

(***************************************************************************)
(* checks/network.py                                                       *)
(***************************************************************************)
\* a plausible slip: a name taken over from another probe
Network_name_copied == "Docker"

Network_name == "Network"

Network_init == [reachable |-> <<>>, unreachable |-> <<>>]

\* the loop over ENDPOINTS: every exception of the request is caught
Network_probe(fact) ==
    CASE fact = "unreachable" ->
            [reachable |-> <<>>,
             unreachable |-> <<"Anthropic (timeout)", "OpenAI (connection failed)">>]
      [] fact = "partial" ->
            [reachable |-> <<"Anthropic">>, unreachable |-> <<"OpenAI (timeout)">>]
      [] fact = "reachable" ->
            [reachable |-> <<"Anthropic", "OpenAI">>, unreachable |-> <<>>]

Network_get_suggestions ==
    <<"check your internet connection", "configure proxy", "check firewall",
      "try curl">>

Network_run(fact) ==
    LET st == Network_probe(fact) IN
    IF st.reachable = <<>> THEN
        Returned(CheckResult(Network_name, FAIL, "Cannot reach any AI providers",
                             <<"All connection attempts failed">>, FALSE,
                             Network_get_suggestions), st)
    ELSE IF st.unreachable # <<>> THEN
        Returned(CheckResult(Network_name, WARN, "Some providers unreachable",
                             <<"Reachable">>, FALSE, Network_get_suggestions), st)
    ELSE
        Returned(CheckResult(Network_name, PASS, "Network connectivity OK",
                             <<"Reachable">>, FALSE, <<>>), st)

(***************************************************************************)
(* fix: what it returns and what it does to the machine.  `st` is the      *)
(* state the instance holds, `plat` is sys.platform, `out` is how the      *)
(* external step of the fix (installer, daemon start, file write) ended.   *)
(***************************************************************************)
Outcomes == {"ok", "failed", "timeout", "notfound", "error"}

\* fix returned `ret`; `effect` is the mutation made ("none": only guidance
\* was printed), `fact` the facet of the machine afterwards ("same": as before)
FixReturned(ret, effect, fact) ==
    [raised |-> FALSE, ret |-> ret, effect |-> effect, fact |-> fact]
FixRaised(effect) ==
    [raised |-> TRUE, ret |-> FALSE, effect |-> effect, fact |-> "same"]

\* NodeJSCheck.fix: prints the install suggestions
NodeJS_fix(st, plat, out) == FixReturned(FALSE, "none", "same")

\* OpenClawCheck.fix: on Windows prints; elsewhere runs the install script,
\* catching only TimeoutExpired and FileNotFoundError
OpenClaw_fix(st, plat, out) ==
    IF plat = "win32" THEN FixReturned(FALSE, "none", "same")
    ELSE CASE out = "ok"       -> FixReturned(TRUE, "installer_succeeded", "ok")
           [] out = "failed"   -> FixReturned(FALSE, "installer_failed", "same")
           [] out = "timeout"  -> FixReturned(FALSE, "installer_timed_out", "same")
           [] out = "notfound" -> FixReturned(FALSE, "none", "same")
           [] out = "error"    -> FixRaised("none")

\* DockerCheck.fix
Docker_fix(st, plat, out) ==
    IF ~st.docker_version THEN FixReturned(FALSE, "none", "same")
    ELSE IF ~st.docker_running THEN
        IF plat = "darwin" THEN
            \* the return code of `open -a Docker` is not looked at
            IF out = "ok" THEN FixReturned(TRUE, "docker_desktop_opened", "same")
            ELSE IF out = "failed" THEN FixReturned(TRUE, "none", "same")
            ELSE FixReturned(FALSE, "none", "same")
        ELSE IF plat = "linux" THEN
            IF out = "ok"
            THEN FixReturned(TRUE, "docker_daemon_started", "running")
            ELSE FixReturned(FALSE, "none", "same")
        ELSE FixReturned(FALSE, "none", "same")
    ELSE FixReturned(FALSE, "none", "same")

\* SystemCheck.fix
System_fix(st, plat, out) == FixReturned(FALSE, "none", "same")

\* a plausible slip: the default config written whatever run found
Config_fix_always_writes(st, plat, out) ==
    IF out = "ok"
    THEN FixReturned(TRUE, "config_written", "valid")
    ELSE FixReturned(FALSE, "none", "same")

\* ConfigCheck.fix: writes the default config when run found no config file
Config_fix(st, plat, out) ==
    IF ~st.config_path THEN
        IF out = "ok"
        THEN FixReturned(TRUE, "config_written", "valid")
        ELSE FixReturned(FALSE, "none", "same")
    ELSE FixReturned(FALSE, "none", "same")

\* APIKeysCheck.fix
APIKeys_fix(st, plat, out) == FixReturned(FALSE, "none", "same")

\* NetworkCheck.fix
Network_fix(st, plat, out) == FixReturned(FALSE, "none", "same")

(***************************************************************************)
(* checks/folders.py and checks/logs.py: probes that are not in the        *)
(* registry                                                                *)
(***************************************************************************)
Folders_name == "Folders"

\* OpenClaw home: none; a path that is not readable or writable; expected
\* directories missing; only config.yaml missing; complete
FoldersFacts == {"nohome", "permission", "missing_dirs", "missing_files", "ok"}

Folders_init == [home_dir |-> FALSE, missing_dirs |-> <<>>, missing_files |-> <<>>,
                 permission_issues |-> <<>>]

\* _find_openclaw_home, _check_permissions and the loops over EXPECTED_DIRS
\* and EXPECTED_FILES
Folders_check(fact) ==
    CASE fact = "nohome" -> Folders_init
      [] fact = "permission" ->
            [Folders_init EXCEPT !.home_dir = TRUE,
                                 !.permission_issues = <<"~/.openclaw">>]
      [] fact = "missing_dirs" ->
            [Folders_init EXCEPT !.home_dir = TRUE,
                                 !.missing_dirs = <<"skills", "channels">>]
      [] fact = "missing_files" ->
            [Folders_init EXCEPT !.home_dir = TRUE,
                                 !.missing_files = <<"config.yaml">>]
      [] fact = "ok" -> [Folders_init EXCEPT !.home_dir = TRUE]

Folders_run(fact) ==
    LET st == Folders_check(fact) IN
    IF ~st.home_dir THEN
        Returned(CheckResult(Folders_name, WARN, "OpenClaw home directory not found",
                             <<"Expected ~/.openclaw">>, TRUE,
                             <<"run openclaw init", "or create ~/.openclaw">>), st)
    ELSE IF st.permission_issues # <<>> THEN
        Returned(CheckResult(Folders_name, FAIL, "Permission issues",
                             <<"Issues">>, FALSE,
                             <<"chmod 755", "ensure your user owns the directory">>), st)
    ELSE IF st.missing_dirs # <<>> \/ st.missing_files # <<>> THEN
        Returned(CheckResult(Folders_name, WARN, "OpenClaw structure incomplete",
                             <<"Missing">>, TRUE,
                             <<"run openclaw init", "or manually create">>), st)
    ELSE
        Returned(CheckResult(Folders_name, PASS, "OpenClaw folder structure OK",
                             <<"Home">>, FALSE, <<>>), st)

\* FoldersCheck.fix: creates the home directory when none was found, then
\* the missing directories; `out` is how mkdir ended
Folders_fix(st, plat, out) ==
    IF ~st.home_dir /\ out # "ok" THEN FixReturned(FALSE, "none", "same")
    ELSE IF st.missing_dirs # <<>> THEN
        IF out = "ok"
        THEN FixReturned(TRUE, "directories_created",
                         IF st.missing_files # <<>> THEN "missing_files" ELSE "ok")
        ELSE FixReturned(FALSE, "none", "same")
    ELSE
        \* `return len(self._missing_dirs) == 0`
        IF ~st.home_dir
        THEN FixReturned(TRUE, "home_created", "missing_dirs")
        ELSE FixReturned(TRUE, "none", "same")

Logs_name == "Logs"

\* logs: no log directory; no recent file; recent files without a known
\* error; with warnings only; with errors
LogsFacts == {"nodir", "norecent", "clean", "warnings", "errors"}

Logs_init == [log_dir |-> FALSE, log_files |-> <<>>, found_errors |-> <<>>]

\* _find_log_directory, _find_log_files, _parse_log_file
Logs_parse(fact) ==
    CASE fact = "nodir"    -> Logs_init
      [] fact = "norecent" -> [Logs_init EXCEPT !.log_dir = TRUE]
      [] fact = "clean" ->
            [Logs_init EXCEPT !.log_dir = TRUE, !.log_files = <<"openclaw.log">>]
      [] fact = "warnings" ->
            [log_dir |-> TRUE, log_files |-> <<"openclaw.log">>,
             found_errors |-> <<"warning">>]
      [] fact = "errors" ->
            [log_dir |-> TRUE, log_files |-> <<"openclaw.log">>,
             found_errors |-> <<"warning", "error">>]

Logs_run(fact) ==
    LET st == Logs_parse(fact) IN
    IF ~st.log_dir THEN
        Returned(CheckResult(Logs_name, PASS, "No log directory found",
                             <<"Logs will appear">>, FALSE, <<>>), st)
    ELSE IF st.log_files = <<>> THEN
        Returned(CheckResult(Logs_name, PASS, "No recent logs found",
                             <<"Checked">>, FALSE, <<>>), st)
    ELSE IF st.found_errors = <<>> THEN
        Returned(CheckResult(Logs_name, PASS, "No errors in recent logs",
                             <<"Log directory">>, FALSE, <<>>), st)
    ELSE
        Returned(CheckResult(Logs_name,
                             IF \E i \in 1..Len(st.found_errors) :
                                    st.found_errors[i] = "error"
                             THEN FAIL ELSE WARN,
                             "Found issue(s) in logs", <<"issues">>, FALSE,
                             st.found_errors), st)

\* LogsCheck.fix: prints; True when there is nothing to explain
Logs_fix(st, plat, out) ==
    IF st.found_errors = <<>> THEN FixReturned(TRUE, "none", "same")
    ELSE FixReturned(FALSE, "none", "same")

(***************************************************************************)
(* checks/__init__.py: the registry                                        *)
(***************************************************************************)
ALL_CHECKS == <<"NodeJSCheck", "OpenClawCheck", "DockerCheck", "SystemCheck",
                "ConfigCheck", "APIKeysCheck", "NetworkCheck">>

Classes == {ALL_CHECKS[i] : i \in 1..Len(ALL_CHECKS)}

\* the subclasses of BaseCheck in the package, registered or not
ProbeClasses == Classes \cup {"FoldersCheck", "LogsCheck"}

\* cls.name
ClassName(cls) ==
    CASE cls = "NodeJSCheck"   -> NodeJS_name
      [] cls = "OpenClawCheck" -> OpenClaw_name
      [] cls = "DockerCheck"   -> Docker_name
      [] cls = "SystemCheck"   -> System_name
      [] cls = "ConfigCheck"   -> Config_name
      [] cls = "APIKeysCheck"  -> APIKeys_name
      [] cls = "NetworkCheck"  -> Network_name
      [] cls = "FoldersCheck"  -> Folders_name
      [] cls = "LogsCheck"     -> Logs_name

\* cls(): the state __init__ sets
ClassInit(cls) ==
    CASE cls = "NodeJSCheck"   -> NodeJS_init
      [] cls = "OpenClawCheck" -> OpenClaw_init
      [] cls = "DockerCheck"   -> Docker_init
      [] cls = "SystemCheck"   -> System_init
      [] cls = "ConfigCheck"   -> Config_init
      [] cls = "APIKeysCheck"  -> APIKeys_init
      [] cls = "NetworkCheck"  -> Network_init
      [] cls = "FoldersCheck"  -> Folders_init
      [] cls = "LogsCheck"     -> Logs_init

\* what the probe of class cls can find on a machine
Facts(cls) ==
    CASE cls = "NodeJSCheck"   -> NodeFacts
      [] cls = "OpenClawCheck" -> OpenClawFacts
      [] cls = "DockerCheck"   -> DockerFacts
      [] cls = "SystemCheck"   -> SystemFacts
      [] cls = "ConfigCheck"   -> ConfigFacts
      [] cls = "APIKeysCheck"  -> APIKeysFacts
      [] cls = "NetworkCheck"  -> NetworkFacts
      [] cls = "FoldersCheck"  -> FoldersFacts
      [] cls = "LogsCheck"     -> LogsFacts

\* the facets in which a call made by run times out
TimeoutFacts(cls) ==
    CASE cls = "NodeJSCheck"   -> NodeTimeoutFacts
      [] cls = "OpenClawCheck" -> OpenClawTimeoutFacts
      [] cls = "DockerCheck"   -> DockerTimeoutFacts
      [] cls = "NetworkCheck"  -> NetworkTimeoutFacts
      [] OTHER                 -> {}

\* check.run(), dispatched on the class
Run(cls, fact) ==
    CASE cls = "NodeJSCheck"   -> NodeJS_run(fact)
      [] cls = "OpenClawCheck" -> OpenClaw_run(fact)
      [] cls = "DockerCheck"   -> Docker_run(fact)
      [] cls = "SystemCheck"   -> System_run(fact)
      [] cls = "ConfigCheck"   -> Config_run(fact)
      [] cls = "APIKeysCheck"  -> APIKeys_run(fact)
      [] cls = "NetworkCheck"  -> Network_run(fact)
      [] cls = "FoldersCheck"  -> Folders_run(fact)
      [] cls = "LogsCheck"     -> Logs_run(fact)

\* check.fix(), dispatched on the class
Fix(cls, st, plat, out) ==
    CASE cls = "NodeJSCheck"   -> NodeJS_fix(st, plat, out)
      [] cls = "OpenClawCheck" -> OpenClaw_fix(st, plat, out)
      [] cls = "DockerCheck"   -> Docker_fix(st, plat, out)
      [] cls = "SystemCheck"   -> System_fix(st, plat, out)
      [] cls = "ConfigCheck"   -> Config_fix(st, plat, out)
      [] cls = "APIKeysCheck"  -> APIKeys_fix(st, plat, out)
      [] cls = "NetworkCheck"  -> Network_fix(st, plat, out)
      [] cls = "FoldersCheck"  -> Folders_fix(st, plat, out)
      [] cls = "LogsCheck"     -> Logs_fix(st, plat, out)

(***************************************************************************)
(* main.py check: lookup of a probe by name.  Names are sequences of       *)
(* characters so that lower() and replace() are computed.                  *)
(***************************************************************************)
UpperCase == <<"A", "B", "C", "D", "E", "F", "G", "H", "I", "J", "K", "L", "M",
               "N", "O", "P", "Q", "R", "S", "T", "U", "V", "W", "X", "Y", "Z">>
LowerCase == <<"a", "b", "c", "d", "e", "f", "g", "h", "i", "j", "k", "l", "m",
               "n", "o", "p", "q", "r", "s", "t", "u", "v", "w", "x", "y", "z">>

\* a plausible slip: the argument compared as typed
Lower_unchanged(str) == str

\* str.lower()
Lower(str) ==
    [i \in 1..Len(str) |->
        IF \E j \in 1..Len(UpperCase) : UpperCase[j] = str[i]
        THEN LowerCase[CHOOSE j \in 1..Len(UpperCase) : UpperCase[j] = str[i]]
        ELSE str[i]]

\* str.replace(old, new) for single characters
Replace(str, old, new) ==
    [i \in 1..Len(str) |-> IF str[i] = old THEN new ELSE str[i]]

\* name.lower().replace("-", "_").replace(" ", "_")
NameLower(n) == Replace(Replace(Lower(n), "-", "_"), " ", "_")

\* the characters of a display name
NameChars(n) ==
    CASE
         n = "Node.js" -> <<"N", "o", "d", "e", ".", "j", "s">>
      [] n = "OpenClaw" -> <<"O", "p", "e", "n", "C", "l", "a", "w">>
      [] n = "Docker" -> <<"D", "o", "c", "k", "e", "r">>
      [] n = "System" -> <<"S", "y", "s", "t", "e", "m">>
      [] n = "Config" -> <<"C", "o", "n", "f", "i", "g">>
      [] n = "API Keys" -> <<"A", "P", "I", " ", "K", "e", "y", "s">>
      [] n = "Network" -> <<"N", "e", "t", "w", "o", "r", "k">>

\* name_map.get(key): the display name, or "None"
NameMapGet(key) ==
    CASE
         key = <<"n", "o", "d", "e", "j", "s">> -> "Node.js"
      [] key = <<"n", "o", "d", "e">> -> "Node.js"
      [] key = <<"o", "p", "e", "n", "c", "l", "a", "w">> -> "OpenClaw"
      [] key = <<"c", "l", "a", "w">> -> "OpenClaw"
      [] key = <<"d", "o", "c", "k", "e", "r">> -> "Docker"
      [] key = <<"s", "y", "s", "t", "e", "m">> -> "System"
      [] key = <<"c", "o", "n", "f", "i", "g">> -> "Config"
      [] key = <<"c", "o", "n", "f", "i", "g", "u", "r", "a", "t", "i", "o", "n">> -> "Config"
      [] key = <<"a", "p", "i", "_", "k", "e", "y", "s">> -> "API Keys"
      [] key = <<"a", "p", "i", "k", "e", "y", "s">> -> "API Keys"
      [] key = <<"k", "e", "y", "s">> -> "API Keys"
      [] key = <<"n", "e", "t", "w", "o", "r", "k">> -> "Network"
      [] key = <<"n", "e", "t">> -> "Network"
      [] OTHER -> "None"

\* the loop over ALL_CHECKS: the first class whose name is the mapped name or
\* whose lower-cased name is the normalised argument; "None" when there is none
Matches(cls, target_name, name_lower) ==
    \/ ClassName(cls) = target_name
    \/ Lower(NameChars(ClassName(cls))) = name_lower

\* a plausible slip: the first probe of the registry when nothing matches
LookupCheck_first_by_default(n) ==
    LET name_lower == NameLower(n)
        target_name == NameMapGet(name_lower)
        hits == {i \in 1..Len(ALL_CHECKS) :
                    Matches(ALL_CHECKS[i], target_name, name_lower)}
    IN IF hits = {} THEN ALL_CHECKS[1]
       ELSE ALL_CHECKS[CHOOSE i \in hits : \A j \in hits : i <= j]

LookupCheck(n) ==
    LET name_lower == NameLower(n)
        target_name == NameMapGet(name_lower)
        hits == {i \in 1..Len(ALL_CHECKS) :
                    Matches(ALL_CHECKS[i], target_name, name_lower)}
    IN IF hits = {} THEN "None"
       ELSE ALL_CHECKS[CHOOSE i \in hits : \A j \in hits : i <= j]

\* the NAME arguments tried
NameInputs ==
    { <<"n", "o", "d", "e", "j", "s">>,
      <<"n", "o", "d", "e">>,
      <<"o", "p", "e", "n", "c", "l", "a", "w">>,
      <<"c", "l", "a", "w">>,
      <<"d", "o", "c", "k", "e", "r">>,
      <<"s", "y", "s", "t", "e", "m">>,
      <<"c", "o", "n", "f", "i", "g">>,
      <<"c", "o", "n", "f", "i", "g", "u", "r", "a", "t", "i", "o", "n">>,
      <<"a", "p", "i", "_", "k", "e", "y", "s">>,
      <<"a", "p", "i", "k", "e", "y", "s">>,
      <<"k", "e", "y", "s">>,
      <<"n", "e", "t", "w", "o", "r", "k">>,
      <<"n", "e", "t">>,
      <<"N", "o", "d", "e", ".", "j", "s">>,
      <<"A", "P", "I", " ", "K", "e", "y", "s">>,
      <<"a", "p", "i", "-", "k", "e", "y", "s">>,
      <<"D", "O", "C", "K", "E", "R">>,
      <<"N", "e", "t">>,
      <<"b", "o", "g", "u", "s">>,
      <<"f", "o", "l", "d", "e", "r", "s">>,
      <<>> }

(***************************************************************************)
(* Calls on probe instances.                                               *)
(***************************************************************************)
\* one entry of trace: a run or fix call on instance `inst` of the probe
\* named `name`, or manual guidance printed for it
Event(op, n, inst, phase, raised, ret) ==
    [op |-> op, name |-> n, inst |-> inst, phase |-> phase,
     raised |-> raised, ret |-> ret]

\* the facets a probe may find: any, the first time; afterwards what is there
Observe(cls) == IF env[cls] = Unobserved THEN Facts(cls) ELSE {env[cls]}

\* the same, told apart by which call timed out
ObserveCalls(cls) ==
    IF env[cls] = Unobserved THEN Facts(cls) \cup TimeoutFacts(cls) ELSE {env[cls]}

ObservePlatform == IF platform = Unobserved THEN Platforms ELSE {platform}

\* sys.platform is read by OpenClawCheck.fix, and by DockerCheck.fix when
\* Docker is installed and not running
ReadsPlatform(cls, st) ==
    \/ cls = "OpenClawCheck"
    \/ cls = "DockerCheck" /\ st.docker_version /\ ~st.docker_running

\* a plausible slip: the last instance is kept and used again
NewInstance_reused == IF nInst = 0 THEN 1 ELSE nInst

\* check_class(): the identity of the object created
NewInstance == nInst + 1

\* check = check_class(); check.run() finding `fact`
Instantiate_and_run(cls, fact, phase) ==
    LET out == Run(cls, fact) IN
    /\ env' = [env EXCEPT ![cls] = fact]
    /\ nInst' = NewInstance
    /\ check' = [kind |-> cls, id |-> NewInstance, st |-> out.st]
    /\ trace' = Append(trace, Event("run", ClassName(cls), NewInstance, phase,
                                    out.raised, FALSE))

\* the install script is fetched and run by bash: what it leaves on the
\* machine besides the CLI is decided by the script.  It may have written
\* the default configuration where there was none.
AfterInstaller(e) ==
    {e} \cup (IF e["ConfigCheck"] = "none"
              THEN {[e EXCEPT !["ConfigCheck"] = "valid"]}
              ELSE {})

\* the machine after fix() of a `cls` instance ended as `f`
MachineAfter(cls, f, e) ==
    LET own == IF f.fact = "same" THEN e ELSE [e EXCEPT ![cls] = f.fact] IN
    IF f.effect \in {"installer_succeeded", "installer_failed",
                     "installer_timed_out"}
    THEN AfterInstaller(own)
    ELSE {own}

\* check.fix() on the instance held in `check`
Call_fix(plat, out, phase) ==
    LET f == Fix(check.kind, check.st, plat, out) IN
    /\ platform' = IF ReadsPlatform(check.kind, check.st) THEN plat ELSE platform
    /\ env' \in MachineAfter(check.kind, f, env)
    /\ effects' = IF f.effect = "none" THEN effects ELSE effects \cup {f.effect}
    /\ trace' = Append(trace, Event("fix", ClassName(check.kind), check.id, phase,
                                    f.raised, f.ret))

\* an exception leaves the command: traceback, exit status 1
Crash ==
    /\ pc' = "crashed"
    /\ exit_code' = 1

(***************************************************************************)
(* main.py run_all_checks                                                  *)
(***************************************************************************)
\* a plausible slip: the registry walked backwards
CheckClassAt_reversed(i) == ALL_CHECKS[Len(ALL_CHECKS) + 1 - i]

\* `for check_class in ALL_CHECKS`: check_class in the i-th iteration
CheckClassAt(i) == ALL_CHECKS[i]

\* a plausible slip: the loop left one probe early
RunCheck_stops_early ==
    /\ pc = "run_pass"
    /\ LET i == Len(results) + 1
           cls == CheckClassAt(i)
       IN \E fact \in Observe(cls) :
            /\ Instantiate_and_run(cls, fact, "initial")
            /\ IF Run(cls, fact).raised
               THEN /\ Crash
                    /\ UNCHANGED results
               ELSE /\ results' = Append(results, Run(cls, fact).result)
                    /\ pc' = IF i >= Len(ALL_CHECKS) - 1 THEN "tally" ELSE "run_pass"
                    /\ UNCHANGED exit_code
    /\ UNCHANGED <<cmd, fix, json_output, name, platform, passed, warnings,
                   failed, summary, fixable_results, k, result, effects>>

\* lines 84-91: one iteration of the loop over ALL_CHECKS
RunCheck ==
    /\ pc = "run_pass"
    /\ LET i == Len(results) + 1
           cls == CheckClassAt(i)
       IN \E fact \in Observe(cls) :
            /\ Instantiate_and_run(cls, fact, "initial")
            /\ IF Run(cls, fact).raised
               THEN /\ Crash
                    /\ UNCHANGED results
               ELSE /\ results' = Append(results, Run(cls, fact).result)
                    /\ pc' = IF i = Len(ALL_CHECKS) THEN "tally" ELSE "run_pass"
                    /\ UNCHANGED exit_code
    /\ UNCHANGED <<cmd, fix, json_output, name, platform, passed, warnings,
                   failed, summary, fixable_results, k, result, effects>>

\* lines 103-108: the counters after one more result
CountResult(c, r) ==
    IF r.status = PASS THEN [c EXCEPT !.passed = @ + 1]
    ELSE IF r.status = WARN THEN [c EXCEPT !.warnings = @ + 1]
    ELSE [c EXCEPT !.failed = @ + 1]

\* lines 94-108: the loop over results
RECURSIVE CountResults(_, _)
CountResults(c, rs) ==
    IF rs = <<>> THEN c
    ELSE CountResults(CountResult(c, Head(rs)), Tail(rs))

\* a plausible slip: the fix pass entered whatever the flag says
Tally_ignoring_flag ==
    /\ pc = "tally"
    /\ LET c == CountResults([passed |-> 0, warnings |-> 0, failed |-> 0], results)
       IN /\ passed' = c.passed
          /\ warnings' = c.warnings
          /\ failed' = c.failed
    /\ pc' = "fix_filter"
    /\ UNCHANGED <<cmd, fix, json_output, name, env, platform, results, summary,
                   fixable_results, k, check, result, nInst, trace, effects,
                   exit_code>>

\* lines 94-110: the results are shown and counted; `if fix:` opens the fix pass
Tally ==
    /\ pc = "tally"
    /\ LET c == CountResults([passed |-> 0, warnings |-> 0, failed |-> 0], results)
       IN /\ passed' = c.passed
          /\ warnings' = c.warnings
          /\ failed' = c.failed
    /\ pc' = IF fix THEN "fix_filter" ELSE "return"
    /\ UNCHANGED <<cmd, fix, json_output, name, env, platform, results, summary,
                   fixable_results, k, check, result, nInst, trace, effects,
                   exit_code>>

\* a plausible slip: warnings left out of the fix pass
IsFixable_failures_only(r) == ~Passed(r)

\* line 112 (and 275): the condition of the filter
IsFixable(r) == ~Passed(r) \/ IsWarning(r)

\* a plausible slip: the filtered list built back to front
FixableResults_reversed(rs) ==
    LET f == SelectSeq(rs, IsFixable)
    IN [i \in 1..Len(f) |-> f[Len(f) + 1 - i]]

\* line 112: fixable_results
FixableResults(rs) == SelectSeq(rs, IsFixable)

\* lines 111-113
FilterFixable ==
    /\ pc = "fix_filter"
    /\ fixable_results' = FixableResults(results)
    /\ k' = 1
    /\ pc' = IF FixableResults(results) # <<>> THEN "fix_loop" ELSE "return"
    /\ UNCHANGED <<cmd, fix, json_output, name, env, platform, results, passed,
                   warnings, failed, summary, check, result, nInst, trace,
                   effects, exit_code>>

\* lines 120-123: next((c for c in ALL_CHECKS if c.name == result.name), None)
FindClass(n) ==
    LET hits == {i \in 1..Len(ALL_CHECKS) : ClassName(ALL_CHECKS[i]) = n}
    IN IF hits = {} THEN "None"
       ELSE ALL_CHECKS[CHOOSE i \in hits : \A j \in hits : i <= j]

\* a plausible slip: only failures are auto-fixed
TakesAutoFix_failures_only(r) == r.can_auto_fix /\ r.status = FAIL

\* line 119 (and 277): the branch that calls fix
TakesAutoFix(r) == r.can_auto_fix

\* a plausible slip: the heading is printed whatever the list holds
TakesManual_unconditional(r) == ~r.can_auto_fix

\* line 132 (and 282): the branch that prints the suggestions
TakesManual(r) == ~r.can_auto_fix /\ r.fix_suggestions # <<>>

\* a plausible slip: a successful fix is taken off the failed counter
ReportFix_counting(success) ==
    /\ failed' = IF success /\ failed > 0 THEN failed - 1 ELSE failed
    /\ UNCHANGED <<results, passed, warnings>>

\* lines 129-131: `if success: print_success(...)`: the outcome of fix is
\* printed; results and counters stay as the initial pass left them
ReportFix(success) == UNCHANGED <<results, passed, warnings, failed>>

\* the position after the current entry of fixable_results
NextFixable ==
    /\ k' = k + 1
    /\ pc' = IF k + 1 > Len(fixable_results) THEN "return" ELSE "fix_loop"

\* a plausible slip: fix is called only when the re-run still finds a problem
FixRerun_trusting_rerun ==
    /\ pc = "fix_loop"
    /\ k <= Len(fixable_results)
    /\ TakesAutoFix(fixable_results[k])
    /\ LET cls == FindClass(fixable_results[k].name) IN
       IF cls = "None"
       THEN /\ NextFixable
            /\ UNCHANGED <<env, check, nInst, trace, exit_code>>
       ELSE \E fact \in Observe(cls) :
            /\ Instantiate_and_run(cls, fact, "fix")
            /\ IF Run(cls, fact).raised
               THEN /\ Crash
                    /\ UNCHANGED k
               ELSE IF Run(cls, fact).result.status = PASS
               THEN /\ NextFixable
                    /\ UNCHANGED exit_code
               ELSE /\ pc' = "fix_call"
                    /\ UNCHANGED <<k, exit_code>>
    /\ UNCHANGED <<cmd, fix, json_output, name, platform, results, passed,
                   warnings, failed, summary, fixable_results, result, effects>>

\* lines 118-126: an auto-fixable result: a fresh instance is run again
FixRerun ==
    /\ pc = "fix_loop"
    /\ k <= Len(fixable_results)
    /\ TakesAutoFix(fixable_results[k])
    /\ LET cls == FindClass(fixable_results[k].name) IN
       IF cls = "None"
       THEN /\ NextFixable
            /\ UNCHANGED <<env, check, nInst, trace, exit_code>>
       ELSE \E fact \in Observe(cls) :
            /\ Instantiate_and_run(cls, fact, "fix")
            /\ IF Run(cls, fact).raised
               THEN /\ Crash
                    /\ UNCHANGED k
               ELSE /\ pc' = "fix_call"
                    /\ UNCHANGED <<k, exit_code>>
    /\ UNCHANGED <<cmd, fix, json_output, name, platform, results, passed,
                   warnings, failed, summary, fixable_results, result, effects>>

\* lines 127-131: fix on the instance just run
FixCall ==
    /\ pc = "fix_call"
    /\ \E plat \in ObservePlatform, out \in Outcomes :
        /\ Call_fix(plat, out, "fix")
        /\ IF Fix(check.kind, check.st, plat, out).raised
           THEN /\ Crash
                /\ UNCHANGED k
           ELSE /\ NextFixable
                /\ UNCHANGED exit_code
        /\ ReportFix(Fix(check.kind, check.st, plat, out).ret)
    /\ UNCHANGED <<cmd, fix, json_output, name, summary, fixable_results, check,
                   result, nInst>>

\* lines 132-136: a result that is not auto-fixable: its suggestions, if any
ManualFix ==
    /\ pc = "fix_loop"
    /\ k <= Len(fixable_results)
    /\ ~TakesAutoFix(fixable_results[k])
    /\ trace' = IF TakesManual(fixable_results[k])
                THEN Append(trace, Event("manual", fixable_results[k].name, 0,
                                         "fix", FALSE, FALSE))
                ELSE trace
    /\ NextFixable
    /\ UNCHANGED <<cmd, fix, json_output, name, env, platform, results, passed,
                   warnings, failed, summary, fixable_results, check, result,
                   nInst, effects, exit_code>>

(***************************************************************************)
(* main.py doctor                                                          *)
(***************************************************************************)
\* lines 195-201: print_summary, exit status from the failed counter
ExitStatus(nfailed) == IF nfailed > 0 THEN 1 ELSE 0

DoctorExit ==
    /\ pc = "return"
    /\ exit_code' = ExitStatus(failed)
    /\ pc' = "done"
    /\ UNCHANGED <<cmd, fix, json_output, name, env, platform, results, passed,
                   warnings, failed, summary, fixable_results, k, check, result,
                   nInst, trace, effects>>

\* lines 171-174: one iteration of the loop of the JSON branch
JsonRunCheck ==
    /\ pc = "json_pass"
    /\ LET i == Len(results) + 1
           cls == CheckClassAt(i)
       IN \E fact \in Observe(cls) :
            /\ Instantiate_and_run(cls, fact, "initial")
            /\ IF Run(cls, fact).raised
               THEN /\ Crash
                    /\ UNCHANGED results
               ELSE /\ results' = Append(results, Run(cls, fact).result)
                    /\ pc' = IF i = Len(ALL_CHECKS) THEN "json_summary"
                             ELSE "json_pass"
                    /\ UNCHANGED exit_code
    /\ UNCHANGED <<cmd, fix, json_output, name, platform, passed, warnings,
                   failed, summary, fixable_results, k, result, effects>>

\* sum(1 for r in results if r.status == status)
CountStatus(rs, status) ==
    Cardinality({i \in 1..Len(rs) : rs[i].status = status})

\* lines 179-183: output["summary"]
JsonSummaryOf(rs) ==
    [passed   |-> CountStatus(rs, PASS),
     warnings |-> CountStatus(rs, WARN),
     failed   |-> CountStatus(rs, FAIL)]

\* lines 176-184: output["checks"] and output["summary"]
JsonOutput(rs) ==
    [checks   |-> [i \in 1..Len(rs) |-> to_dict(rs[i])],
     passed   |-> JsonSummaryOf(rs).passed,
     warnings |-> JsonSummaryOf(rs).warnings,
     failed   |-> JsonSummaryOf(rs).failed]

\* a plausible slip: with --fix the JSON branch goes on into the fix pass
JsonSummary_falls_through ==
    /\ pc = "json_summary"
    /\ summary' = JsonOutput(results)
    /\ IF fix
       THEN /\ pc' = "fix_filter"
            /\ UNCHANGED exit_code
       ELSE /\ exit_code' = ExitStatus(JsonSummaryOf(results).failed)
            /\ pc' = "done"
    /\ UNCHANGED <<cmd, fix, json_output, name, env, platform, results, passed,
                   warnings, failed, fixable_results, k, check, result, nInst,
                   trace, effects>>

\* lines 176-190
JsonSummary ==
    /\ pc = "json_summary"
    /\ summary' = JsonOutput(results)
    /\ exit_code' = ExitStatus(JsonSummaryOf(results).failed)
    /\ pc' = "done"
    /\ UNCHANGED <<cmd, fix, json_output, name, env, platform, results, passed,
                   warnings, failed, fixable_results, k, check, result, nInst,
                   trace, effects>>

(***************************************************************************)
(* main.py check                                                           *)
(***************************************************************************)
\* lines 228-260: lookup; an unknown name lists the checks and exits 1
CheckLookup ==
    /\ pc = "lookup"
    /\ IF LookupCheck(name) = "None"
       THEN /\ pc' = "not_found"
            /\ exit_code' = 1
       ELSE /\ pc' = "check_run"
            /\ UNCHANGED exit_code
    /\ UNCHANGED <<cmd, fix, json_output, name, env, platform, results, passed,
                   warnings, failed, summary, fixable_results, k, check, result,
                   nInst, trace, effects>>

\* lines 264-273
CheckRun ==
    /\ pc = "check_run"
    /\ LET cls == LookupCheck(name) IN
       \E fact \in Observe(cls) :
            /\ Instantiate_and_run(cls, fact, "single")
            /\ IF Run(cls, fact).raised
               THEN /\ Crash
                    /\ UNCHANGED result
               ELSE /\ result' = Run(cls, fact).result
                    /\ pc' = "check_fix"
                    /\ UNCHANGED exit_code
    /\ UNCHANGED <<cmd, fix, json_output, name, platform, results, passed,
                   warnings, failed, summary, fixable_results, k, effects>>

\* lines 275-285: fix on the instance that was run, or the suggestions
CheckFix ==
    /\ pc = "check_fix"
    /\ IF fix /\ IsFixable(result)
       THEN IF TakesAutoFix(result)
            THEN \E plat \in ObservePlatform, out \in Outcomes :
                    /\ Call_fix(plat, out, "single")
                    /\ IF Fix(check.kind, check.st, plat, out).raised
                       THEN Crash
                       ELSE /\ pc' = "check_exit"
                            /\ UNCHANGED exit_code
            ELSE /\ trace' = IF TakesManual(result)
                             THEN Append(trace, Event("manual", result.name, 0,
                                                      "single", FALSE, FALSE))
                             ELSE trace
                 /\ pc' = "check_exit"
                 /\ UNCHANGED <<env, platform, effects, exit_code>>
       ELSE /\ pc' = "check_exit"
            /\ UNCHANGED <<env, platform, effects, trace, exit_code>>
    /\ UNCHANGED <<cmd, fix, json_output, name, results, passed, warnings,
                   failed, summary, fixable_results, k, check, result, nInst>>

\* lines 287-288
CheckExit ==
    /\ pc = "check_exit"
    /\ exit_code' = IF result.status = FAIL THEN 1 ELSE 0
    /\ pc' = "done"
    /\ UNCHANGED <<cmd, fix, json_output, name, env, platform, results, passed,
                   warnings, failed, summary, fixable_results, k, check, result,
                   nInst, trace, effects>>

(***************************************************************************)
(* One invocation of the program.                                          *)
(***************************************************************************)
InitCommon ==
    /\ env = [cls \in Classes |-> Unobserved]
    /\ platform = Unobserved
    /\ passed = 0
    /\ warnings = 0
    /\ failed = 0
    /\ summary = NoSummary
    /\ fixable_results = <<>>
    /\ k = 1
    /\ check = NoCheck
    /\ result = NoResult
    /\ effects = {}
    /\ exit_code = NotExited

Init ==
    /\ InitCommon
    /\ results = <<>>
    /\ nInst = 0
    /\ trace = <<>>
    /\ fix \in BOOLEAN
    /\ \/ /\ cmd = "doctor"
          /\ json_output \in BOOLEAN
          /\ name = <<>>
          /\ pc = IF json_output THEN "json_pass" ELSE "run_pass"
       \/ /\ cmd = "check"
          /\ json_output = FALSE
          /\ name \in NameInputs
          /\ pc = "lookup"

Next ==
    \/ RunCheck
    \/ Tally
    \/ FilterFixable
    \/ FixRerun
    \/ FixCall
    \/ ManualFix
    \/ DoctorExit
    \/ JsonRunCheck
    \/ JsonSummary
    \/ CheckLookup
    \/ CheckRun
    \/ CheckFix
    \/ CheckExit

Spec == Init /\ [][Next]_vars

\* strictly sequential, synchronous execution in which every external
\* process or network call returns or hits its timeout: the step that is
\* next is eventually taken
SpecFair == Spec /\ WF_vars(Next)

(***************************************************************************)
(* The aggregation and the fix pass on any list of results.  BaseCheck     *)
(* lets run return any CheckResult, of any of the four statuses; the       *)
(* registered probes return only some of them.  Here the initial pass has  *)
(* returned an arbitrary result for each of the first n probes of the      *)
(* registry, n <= MaxResults, and doctor goes on from there.               *)
(***************************************************************************)
MaxResults == 3

ResultShapes ==
    { [details |-> None, can_auto_fix |-> FALSE, fix_suggestions |-> <<>>],
      [details |-> <<"detail">>, can_auto_fix |-> FALSE,
       fix_suggestions |-> <<"manual step">>],
      [details |-> None, can_auto_fix |-> TRUE,
       fix_suggestions |-> <<"first step", "second step">>] }

\* the results run may return for a probe of class cls
AnyResult(cls) ==
    { CheckResult(ClassName(cls), st, "message", sh.details, sh.can_auto_fix,
                  sh.fix_suggestions) : st \in CheckStatus, sh \in ResultShapes }

\* the result lists of the first n probes
RECURSIVE ResultLists(_)
ResultLists(n) ==
    IF n = 0 THEN {<<>>}
    ELSE { Append(rs, r) : rs \in ResultLists(n - 1), r \in AnyResult(ALL_CHECKS[n]) }

\* the calls of the initial pass that returned n results
RECURSIVE InitialTrace(_)
InitialTrace(n) ==
    IF n = 0 THEN <<>>
    ELSE Append(InitialTrace(n - 1),
                Event("run", ClassName(ALL_CHECKS[n]), n, "initial", FALSE, FALSE))

InitAgg ==
    /\ InitCommon
    /\ cmd = "doctor"
    /\ name = <<>>
    /\ fix \in BOOLEAN
    /\ json_output \in BOOLEAN
    /\ \E n \in 0..MaxResults :
        /\ results \in ResultLists(n)
        /\ nInst = n
        /\ trace = InitialTrace(n)
    /\ pc = IF json_output THEN "json_summary" ELSE "tally"

NextAgg ==
    \/ Tally
    \/ FilterFixable
    \/ FixRerun
    \/ FixCall
    \/ ManualFix
    \/ DoctorExit
    \/ JsonSummary

SpecAgg == InitAgg /\ [][NextAgg]_vars

(***************************************************************************)
(* The check command, without --fix, on every spelling of a declared name: *)
(* each key of name_map and each display name of the registry, in every    *)
(* letter case, and the names of NameInputs.                               *)
(***************************************************************************)
\* the keys of name_map and the lower-cased display names
DeclaredNames ==
    { <<"n", "o", "d", "e", "j", "s">>,
      <<"n", "o", "d", "e">>,
      <<"o", "p", "e", "n", "c", "l", "a", "w">>,
      <<"c", "l", "a", "w">>,
      <<"d", "o", "c", "k", "e", "r">>,
      <<"s", "y", "s", "t", "e", "m">>,
      <<"c", "o", "n", "f", "i", "g">>,
      <<"c", "o", "n", "f", "i", "g", "u", "r", "a", "t", "i", "o", "n">>,
      <<"a", "p", "i", "_", "k", "e", "y", "s">>,
      <<"a", "p", "i", "k", "e", "y", "s">>,
      <<"k", "e", "y", "s">>,
      <<"n", "e", "t", "w", "o", "r", "k">>,
      <<"n", "e", "t">>,
      <<"n", "o", "d", "e", ".", "j", "s">>,
      <<"a", "p", "i", " ", "k", "e", "y", "s">> }

\* the upper-case form of a character
UpperOf(c) ==
    IF \E j \in 1..Len(LowerCase) : LowerCase[j] = c
    THEN UpperCase[CHOOSE j \in 1..Len(LowerCase) : LowerCase[j] = c]
    ELSE c

\* the spellings of a lower-case name in every letter case
CaseVariants(str) ==
    { [i \in 1..Len(str) |-> IF up[i] THEN UpperOf(str[i]) ELSE str[i]] :
        up \in [1..Len(str) -> BOOLEAN] }

AliasInputs == UNION { CaseVariants(a) : a \in DeclaredNames }

InitLookup ==
    /\ InitCommon
    /\ results = <<>>
    /\ nInst = 0
    /\ trace = <<>>
    /\ fix = FALSE
    /\ cmd = "check"
    /\ json_output = FALSE
    /\ name \in AliasInputs \cup NameInputs
    /\ pc = "lookup"

NextLookup ==
    \/ CheckLookup
    \/ CheckRun
    \/ CheckFix
    \/ CheckExit

SpecLookup == InitLookup /\ [][NextLookup]_vars

(***************************************************************************)
(* A probe used directly through BaseCheck: an instance is constructed and *)
(* its run and fix are called in any order, at most MaxCalls calls.        *)
(***************************************************************************)
MaxCalls == 3

\* check.run() on the instance held in `check`, finding `fact`
Call_run(fact, phase) ==
    LET out == Run(check.kind, fact) IN
    /\ env' = [env EXCEPT ![check.kind] = fact]
    /\ check' = [check EXCEPT !.st = out.st]
    /\ trace' = Append(trace, Event("run", ClassName(check.kind), check.id, phase,
                                    out.raised, FALSE))

InitProbe ==
    /\ cmd = "probe"
    /\ fix = FALSE
    /\ json_output = FALSE
    /\ name = <<>>
    /\ pc = "created"
    /\ env = [cls \in ProbeClasses |-> Unobserved]
    /\ platform = Unobserved
    /\ results = <<>>
    /\ passed = 0
    /\ warnings = 0
    /\ failed = 0
    /\ summary = NoSummary
    /\ fixable_results = <<>>
    /\ k = 1
    /\ \E cls \in ProbeClasses :
            check = [kind |-> cls, id |-> 1, st |-> ClassInit(cls)]
    /\ result = NoResult
    /\ nInst = 1
    /\ trace = <<>>
    /\ effects = {}
    /\ exit_code = NotExited

\* the caller calls run on the instance
ProbeRun ==
    /\ pc \in {"created", "ran", "fixed"}
    /\ Len(trace) < MaxCalls
    /\ \E fact \in ObserveCalls(check.kind) :
        /\ Call_run(fact, "probe")
        /\ IF Run(check.kind, fact).raised
           THEN /\ pc' = "raised"
                /\ UNCHANGED result
           ELSE /\ pc' = "ran"
                /\ result' = Run(check.kind, fact).result
    /\ UNCHANGED <<cmd, fix, json_output, name, platform, results, passed,
                   warnings, failed, summary, fixable_results, k, nInst, effects,
                   exit_code>>

\* the caller calls fix on the instance
ProbeFix ==
    /\ pc \in {"created", "ran", "fixed"}
    /\ Len(trace) < MaxCalls
    /\ \E plat \in ObservePlatform, out \in Outcomes :
        /\ Call_fix(plat, out, "probe")
        /\ pc' = IF Fix(check.kind, check.st, plat, out).raised
                 THEN "raised" ELSE "fixed"
    /\ UNCHANGED <<cmd, fix, json_output, name, results, passed, warnings,
                   failed, summary, fixable_results, k, check, result, nInst,
                   exit_code>>

NextProbe ==
    \/ ProbeRun
    \/ ProbeFix

SpecProbe == InitProbe /\ [][NextProbe]_vars

(***************************************************************************)
(* Properties                                                              *)
(***************************************************************************)
IsInitialRun(e) == e.op = "run" /\ e.phase = "initial"
IsHandled(e) == e.phase = "fix" /\ e.op \in {"fix", "manual"}

\* the run calls of the initial pass, in order
InitialRuns == SelectSeq(trace, IsInitialRun)

\* the fix calls and manual guidance of the batch fix pass, in order
HandledEvents == SelectSeq(trace, IsHandled)

\* position in the initial pass of the result named n
Pos(n) == CHOOSE i \in 1..Len(results) : results[i].name = n

\* number of entries of trace with operation op for the probe named n
Calls(op, n) == Cardinality({j \in 1..Len(trace) : trace[j].op = op /\ trace[j].name = n})

\* the initial pass of a batch invocation has ended normally
PassEnded ==
    pc \in {"tally", "fix_filter", "fix_loop", "fix_call", "return",
            "json_summary", "done"}

C2_RaisingRunBecomesFailResult ==
    cmd = "doctor" =>
        \A j \in 1..Len(trace) :
            (IsInitialRun(trace[j]) /\ trace[j].raised) =>
                /\ pc # "crashed"
                /\ \E i \in 1..Len(results) :
                    /\ results[i].name = trace[j].name
                    /\ results[i].status = FAIL

IsFailOrWarn(r) == r.status \in {FAIL, WARN}

C6_FixPassKeepsRegistryOrder ==
    cmd = "doctor" =>
        LET h == HandledEvents IN
        \A a, b \in 1..Len(h) :
            a < b => Pos(h[a].name) < Pos(h[b].name)

\* the fix pass has handled three results, by fix and by manual guidance
C6_Witness ==
    /\ cmd = "doctor"
    /\ Len(HandledEvents) >= 3
    /\ \E a, b \in 1..Len(HandledEvents) :
        HandledEvents[a].op = "fix" /\ HandledEvents[b].op = "manual"

\* C7: every instance created has run called on it exactly once and fix at
\* most once, and a fix call comes directly after the run call on the same
\* instance, which returned; no instance is run a second time.
C7_InstanceRunOnceThenFixedAtMostOnce ==
    /\ \A id \in 1..nInst :
        /\ Cardinality({j \in 1..Len(trace) :
                            trace[j].op = "run" /\ trace[j].inst = id}) = 1
        /\ Cardinality({j \in 1..Len(trace) :
                            trace[j].op = "fix" /\ trace[j].inst = id}) <= 1
    /\ \A j \in 1..Len(trace) :
        /\ trace[j].op \in {"run", "fix"} => trace[j].inst \in 1..nInst
        /\ trace[j].op = "fix" =>
            /\ j > 1
            /\ trace[j - 1].op = "run"
            /\ trace[j - 1].inst = trace[j].inst
            /\ trace[j - 1].name = trace[j].name
            /\ ~trace[j - 1].raised

\* a batch invocation has ended after fix calls on two fresh instances
C7_Witness ==
    /\ pc = "done"
    /\ cmd = "doctor"
    /\ \E i, j \in 1..Len(trace) :
        /\ i < j
        /\ trace[i].op = "fix"
        /\ trace[j].op = "fix"
        /\ trace[i].inst # trace[j].inst

C9_FixPassLeavesResultsAndCounts ==
    [][ (cmd = "doctor" /\ pc \in {"fix_filter", "fix_loop", "fix_call", "return"}) =>
            /\ results' = results
            /\ passed' = passed
            /\ warnings' = warnings
            /\ failed' = failed
            /\ pc' = "done" =>
                /\ failed = CountStatus(results, FAIL)
                /\ exit_code' = IF failed > 0 THEN 1 ELSE 0 ]_vars

\* a batch invocation has ended with exit status 1 although fix returned true
\* for the probe that failed
C9_Witness ==
    /\ cmd = "doctor"
    /\ pc = "done"
    /\ exit_code = 1
    /\ failed = 1
    /\ \E j \in 1..Len(trace) :
        /\ trace[j].op = "fix"
        /\ trace[j].ret
        /\ results[Pos(trace[j].name)].status = FAIL

\* C10: for a filtered result with can_auto_fix false, fix is never called
\* and the probe is never run again; its suggestions are printed, and only
\* when there are some.  In batch fix mode and in single-check fix mode.
C10_NotAutoFixableOnlyGetsSuggestions ==
    /\ cmd = "doctor" =>
        /\ \A j \in 1..Len(trace) :
            trace[j].phase = "fix" =>
                LET r == results[Pos(trace[j].name)] IN
                /\ trace[j].op \in {"run", "fix"} => r.can_auto_fix
                /\ trace[j].op = "manual" =>
                        ~r.can_auto_fix /\ r.fix_suggestions # <<>>
        /\ (pc = "done" /\ fix /\ ~json_output) =>
            \A i \in 1..Len(results) :
                (IsFailOrWarn(results[i]) /\ ~results[i].can_auto_fix) =>
                    Calls("manual", results[i].name) =
                        (IF results[i].fix_suggestions # <<>> THEN 1 ELSE 0)
    /\ cmd = "check" =>
        /\ Cardinality({j \in 1..Len(trace) : trace[j].op = "run"}) <= 1
        /\ \A j \in 1..Len(trace) :
            /\ trace[j].op = "fix" => result.can_auto_fix
            /\ trace[j].op = "manual" =>
                    ~result.can_auto_fix /\ result.fix_suggestions # <<>>
        /\ (pc = "done" /\ fix /\ IsFailOrWarn(result) /\ ~result.can_auto_fix) =>
            Len(trace) = (IF result.fix_suggestions # <<>> THEN 2 ELSE 1)

\* a batch fix invocation has ended having printed the suggestions of one
\* result and nothing for a warning that has none (System, cores only)
C10_Witness ==
    /\ cmd = "doctor"
    /\ fix
    /\ pc = "done"
    /\ \E a, b \in 1..Len(results) :
        /\ IsFailOrWarn(results[a])
        /\ ~results[a].can_auto_fix
        /\ results[a].fix_suggestions = <<>>
        /\ Calls("manual", results[a].name) = 0
        /\ IsFailOrWarn(results[b])
        /\ ~results[b].can_auto_fix
        /\ Calls("manual", results[b].name) = 1

\* number of run calls for the probe named n
RunCalls(n) == Calls("run", n)

\* C11: without --fix no probe's fix is called, no guidance of the fix pass
\* is printed and no probe is run a second time, in batch mode (normal and
\* JSON) and in single-check mode, whatever statuses and can_auto_fix flags
\* the results have.
C11_NoFixFlagNoFixNoRerun ==
    ~fix =>
        /\ \A j \in 1..Len(trace) :
            /\ trace[j].op = "run"
            /\ trace[j].phase \in {"initial", "single"}
        /\ \A cls \in Classes : RunCalls(ClassName(cls)) <= 1
        /\ effects = {}
        /\ fixable_results = <<>>

\* an invocation without --fix has ended with a failed result that is
\* auto-fixable and a warning that is auto-fixable, each run once
C11_Witness ==
    /\ ~fix
    /\ cmd = "doctor"
    /\ pc = "done"
    /\ \E a, b \in 1..Len(results) :
        /\ results[a].status = FAIL
        /\ results[a].can_auto_fix
        /\ results[b].status = WARN
        /\ results[b].can_auto_fix
        /\ RunCalls(results[a].name) = 1
        /\ RunCalls(results[b].name) = 1

\* the aliases the command documents for each probe, and its display name in
\* lower case
AliasesOf(cls) ==
    CASE cls = "NodeJSCheck" ->
            { <<"n", "o", "d", "e", "j", "s">>, <<"n", "o", "d", "e">>,
              <<"n", "o", "d", "e", ".", "j", "s">> }
      [] cls = "OpenClawCheck" ->
            { <<"o", "p", "e", "n", "c", "l", "a", "w">>, <<"c", "l", "a", "w">> }
      [] cls = "DockerCheck" -> { <<"d", "o", "c", "k", "e", "r">> }
      [] cls = "SystemCheck" -> { <<"s", "y", "s", "t", "e", "m">> }
      [] cls = "ConfigCheck" ->
            { <<"c", "o", "n", "f", "i", "g">>,
              <<"c", "o", "n", "f", "i", "g", "u", "r", "a", "t", "i", "o", "n">> }
      [] cls = "APIKeysCheck" ->
            { <<"a", "p", "i", "_", "k", "e", "y", "s">>,
              <<"a", "p", "i", "k", "e", "y", "s">>, <<"k", "e", "y", "s">>,
              <<"a", "p", "i", " ", "k", "e", "y", "s">> }
      [] cls = "NetworkCheck" ->
            { <<"n", "e", "t", "w", "o", "r", "k">>, <<"n", "e", "t">> }

\* n is the lower-case name a written in some letter case
IsSpellingOf(n, a) ==
    /\ Len(n) = Len(a)
    /\ \A i \in 1..Len(a) : n[i] = a[i] \/ n[i] = UpperOf(a[i])

\* C12: the lookup of the check command is a function of the name and the
\* registry: every documented alias and every display name, in any letter
\* case, resolves to a registered probe, the same for all aliases of one
\* probe; the command then runs that probe and no other.
C12_AliasesResolveToTheirProbe ==
    cmd = "check" =>
        \A cls \in Classes : \A a \in AliasesOf(cls) :
            IsSpellingOf(name, a) =>
                /\ LookupCheck(name) = cls
                /\ pc # "not_found"
                /\ check # NoCheck => check.kind = cls

\* the check command has run the API keys probe for the name "KeYs"
C12_Witness ==
    /\ cmd = "check"
    /\ name = <<"K", "e", "Y", "s">>
    /\ pc = "done"
    /\ check # NoCheck
    /\ check.kind = "APIKeysCheck"

\* n, with "-" and " " read as "_", is a documented alias or a display name
\* in some letter case
IsKnownName(n) ==
    \E cls \in Classes : \E a \in AliasesOf(cls) :
        IsSpellingOf(Replace(Replace(n, "-", "_"), " ", "_"), Replace(a, " ", "_"))

\* C13: the check command given a name that matches no alias and no display
\* name calls neither run nor fix on any probe, creates no instance, and ends
\* with a non-zero exit status through the not-found branch, not through an
\* uncaught exception.
C13_UnknownNameIsNotFound ==
    (cmd = "check" /\ ~IsKnownName(name)) =>
        /\ trace = <<>>
        /\ nInst = 0
        /\ check = NoCheck
        /\ effects = {}
        /\ pc \in {"lookup", "not_found"}
        /\ pc = "not_found" => exit_code = 1
        /\ pc = "lookup" => exit_code = NotExited

\* the check command has ended in the not-found branch for the name "bogus"
C13_Witness ==
    /\ cmd = "check"
    /\ name = <<"b", "o", "g", "u", "s">>
    /\ pc = "not_found"
    /\ exit_code = 1
    /\ trace = <<>>

\* the run and fix calls made for the probe named n, in order
OpsFor(n) ==
    LET IsCallFor(e) == e.name = n /\ e.op \in {"run", "fix"}
        calls == SelectSeq(trace, IsCallFor)
    IN [i \in 1..Len(calls) |-> calls[i].op]

\* fix is called for result r: --fix given, r not Pass, r auto-fixable
FixDecision(r) == fix /\ r.status # PASS /\ r.can_auto_fix

\* the calls batch mode makes for a probe whose initial result is r
BatchOps(r) == IF FixDecision(r) THEN <<"run", "run", "fix">> ELSE <<"run">>

\* the calls single-check mode makes for a probe whose result is r
SingleOps(r) == IF FixDecision(r) THEN <<"run", "fix">> ELSE <<"run">>

\* single-check mode calls run on the resolved probe only
SingleRunsResolvedOnly ==
    cmd = "check" =>
        /\ \A j \in 1..Len(trace) :
                trace[j].name = ClassName(LookupCheck(name))
        /\ Cardinality({j \in 1..Len(trace) : trace[j].op = "run"}) <= 1
        /\ pc = "done" => result.name = ClassName(LookupCheck(name))

\* C14: single-check mode calls run on the resolved probe and on no other,
\* and makes for it the sequence of run and fix calls that batch mode makes
\* for a probe of the same kind with the same --fix flag and the same result.
C14_SingleModeSameCallsAsBatch ==
    /\ SingleRunsResolvedOnly
    /\ (cmd = "doctor" /\ ~json_output /\ pc = "done") =>
            \A i \in 1..Len(results) : OpsFor(results[i].name) = BatchOps(results[i])
    /\ (cmd = "check" /\ pc = "done") => OpsFor(result.name) = BatchOps(result)

\* C14 as amended: single-check mode calls run on the resolved probe and on
\* no other and takes the fix decision batch mode takes (--fix given, result
\* not Pass, can_auto_fix), fix coming directly after a run on the same
\* instance; batch mode runs the probe a second time, on a new instance,
\* before fix (run, run, fix), single-check mode calls fix on the instance of
\* its only run (run, fix).
C14_SingleModeSameDecisionOneRunLess ==
    /\ SingleRunsResolvedOnly
    /\ (cmd = "doctor" /\ ~json_output /\ pc = "done") =>
            \A i \in 1..Len(results) : OpsFor(results[i].name) = BatchOps(results[i])
    /\ (cmd = "check" /\ pc = "done") => OpsFor(result.name) = SingleOps(result)
    /\ \A j \in 1..Len(trace) :
            trace[j].op = "fix" =>
                /\ j > 1
                /\ trace[j - 1].op = "run"
                /\ trace[j - 1].inst = trace[j].inst

\* the check command with --fix has ended after run and fix on one instance
\* of a probe whose result was a warning
C14_Witness ==
    /\ cmd = "check"
    /\ fix
    /\ pc = "done"
    /\ result.status = WARN
    /\ Len(trace) = 2
    /\ trace[1].op = "run"
    /\ trace[2].op = "fix"
    /\ trace[1].inst = trace[2].inst

\* the results an invocation holds: the list of a batch pass, the result of
\* the check command
HeldResults ==
    {results[i] : i \in 1..Len(results)} \cup
    (IF result = NoResult THEN {} ELSE {result})

\* C15: for every result, of any of the four statuses, passed is true
\* exactly for Pass and Warn and is_warning exactly for Warn; Fail and Skip
\* are neither passed nor a warning.
C15_PassedAndIsWarningByStatus ==
    \A r \in HeldResults :
        /\ r.status \in CheckStatus
        /\ r.status = PASS => Passed(r) /\ ~IsWarning(r)
        /\ r.status = WARN => Passed(r) /\ IsWarning(r)
        /\ r.status = FAIL => ~Passed(r) /\ ~IsWarning(r)
        /\ r.status = SKIP => ~Passed(r) /\ ~IsWarning(r)

\* a pass has ended holding a Skip, a Warn and a Fail result
C15_Witness ==
    /\ pc = "done"
    /\ \E a, b, c \in 1..Len(results) :
        /\ results[a].status = SKIP
        /\ results[b].status = WARN
        /\ results[c].status = FAIL

\* C16: a result returned by the run of any probe, on any machine, that has
\* status Warn or Fail and can_auto_fix false has a non-empty fix_suggestions
\* list, the System probe with only the CPU-core warning included.
C16_ManualResultsHaveSuggestions ==
    \A r \in HeldResults :
        (r.status \in {WARN, FAIL} /\ ~r.can_auto_fix) => r.fix_suggestions # <<>>

\* C17: on every machine (tools missing, config file unreadable, undecodable
\* or not a mapping, network unreachable) the run of every registered probe
\* returns a result with a non-empty message; it never raises.
C17_RunNeverRaises ==
    /\ \A j \in 1..Len(trace) : trace[j].op = "run" => ~trace[j].raised
    /\ \A r \in HeldResults : r.message # ""

\* run has just returned on the instance held in check
JustRan ==
    /\ trace # <<>>
    /\ check # NoCheck
    /\ trace[Len(trace)].op = "run"
    /\ trace[Len(trace)].inst = check.id
    /\ ~trace[Len(trace)].raised

\* C18: whenever the run of a probe returns a result with can_auto_fix true,
\* fix called next on that instance attempts a remediation, so that it can
\* return true; no probe reports can_auto_fix for a condition whose fix only
\* prints instructions and returns false.
C18_AutoFixableMeansFixCanSucceed ==
    (JustRan /\ Run(check.kind, env[check.kind]).result.can_auto_fix) =>
        \A plat \in ObservePlatform : \E out \in Outcomes :
            /\ ~Fix(check.kind, check.st, plat, out).raised
            /\ Fix(check.kind, check.st, plat, out).ret

\* C19: fix called on a newly constructed instance, before any run, does not
\* raise and behaves as "nothing to fix": it writes nothing to the filesystem
\* and starts no installer and no daemon.
C19_FixBeforeRunDoesNothing ==
    (cmd = "probe" /\ Len(trace) = 1 /\ trace[1].op = "fix") =>
        /\ ~trace[1].raised
        /\ effects = {}

\* C20: ConfigCheck.fix called after run on the same instance, as doctor and
\* check call it, writes the default configuration file only if that run
\* found no configuration file; if one existed at run time, fix writes
\* nothing, leaves the machine as it is and returns false.
C20_ConfigFixNeverOverwrites ==
    [][ (/\ cmd \in {"doctor", "check"}
         /\ JustRan
         /\ check.kind = "ConfigCheck"
         /\ Len(trace') = Len(trace) + 1
         /\ trace'[Len(trace')].op = "fix") =>
            /\ trace'[Len(trace')].inst = check.id
            /\ effects' # effects =>
                    /\ env["ConfigCheck"] = "none"
                    /\ effects' = effects \cup {"config_written"}
            /\ env["ConfigCheck"] # "none" =>
                    /\ effects' = effects
                    /\ env' = env
                    /\ ~trace'[Len(trace')].ret
                    /\ ~trace'[Len(trace')].raised ]_vars

\* fix has been called on a ConfigCheck instance whose run found an empty
\* configuration file, and has written nothing
C20_Witness ==
    /\ cmd \in {"doctor", "check"}
    /\ trace # <<>>
    /\ trace[Len(trace)].op = "fix"
    /\ trace[Len(trace)].name = Config_name
    /\ ~trace[Len(trace)].ret
    /\ env["ConfigCheck"] = "empty"
    /\ "config_written" \notin effects

\* what a fix does when it remedies something: a file or directory created,
\* an installer or daemon started that reported success
Remediations ==
    {"installer_succeeded", "docker_desktop_opened", "docker_daemon_started",
     "config_written", "directories_created", "home_created"}

\* C21: for every probe, registered or not, a fix that changes nothing and
\* only prints returns false: whenever fix returns true it has performed a
\* remediation (created a file or directory, or started an installer or
\* daemon that reported success).
C21_FixTrueOnlyAfterRemediation ==
    [][ (/\ Len(trace') = Len(trace) + 1
         /\ trace'[Len(trace')].op = "fix"
         /\ trace'[Len(trace')].ret) =>
            \E plat \in ObservePlatform, out \in Outcomes :
                LET f == Fix(check.kind, check.st, plat, out) IN
                /\ f.ret
                /\ ~f.raised
                /\ f.effect \in Remediations
                /\ effects' = effects \cup {f.effect}
                /\ platform' = IF ReadsPlatform(check.kind, check.st)
                                THEN plat ELSE platform ]_vars

\* the keys of the mapping, in order
DictKeys == <<"name", "status", "message", "details", "can_auto_fix",
              "fix_suggestions">>

\* CheckStatus(value): the member with that string value
StatusOfValue(v) ==
    CASE v = "pass" -> PASS
      [] v = "warn" -> WARN
      [] v = "fail" -> FAIL
      [] v = "skip" -> SKIP

\* the result built back from a mapping
FromDict(d) ==
    CheckResult(d[1][2], StatusOfValue(d[2][2]), d[3][2], d[4][2], d[5][2], d[6][2])

\* C22: the mapping to_dict gives has the keys name, status, message,
\* details, can_auto_fix, fix_suggestions in that order, the status as its
\* string value and the suggestions in their order; building a result back
\* from it gives the result converted, and a result with a different field
\* value never gives the same mapping.
C22_ToDictRoundTrip ==
    summary # NoSummary =>
        /\ Len(summary.checks) = Len(results)
        /\ \A i \in 1..Len(results) :
            LET d == summary.checks[i]
                r == results[i]
            IN /\ [j \in 1..Len(d) |-> d[j][1]] = DictKeys
               /\ d[1][2] = r.name
               /\ d[2][2] \in {"pass", "warn", "fail", "skip"}
               /\ StatusOfValue(d[2][2]) = r.status
               /\ d[6][2] = r.fix_suggestions
               /\ FromDict(d) = r
               /\ \A r2 \in AnyResult(FindClass(r.name)) :
                    r2 # r => to_dict(r2) # d

\* the JSON branch has written the mappings of a Skip result with details
\* and of a result with two suggestions
C22_Witness ==
    /\ summary # NoSummary
    /\ \E i, j \in 1..Len(results) :
        /\ results[i].status = SKIP
        /\ results[i].details # None
        /\ Len(results[j].fix_suggestions) = 2
        /\ summary.checks[j][6][2][2] = "second step"

\* C23: an exception raised by the fix of a probe does not leave doctor or
\* check: the invocation is not ended by it, the remaining filtered results
\* are handled and the exit status is the one the results give.
C23_RaisingFixIsContained ==
    \A j \in 1..Len(trace) :
        (trace[j].op = "fix" /\ trace[j].raised) =>
            /\ pc # "crashed"
            /\ exit_code # NotExited =>
                    /\ pc = "done"
                    /\ cmd = "doctor" =>
                            /\ exit_code = ExitStatus(CountStatus(results, FAIL))
                            /\ Len(HandledEvents) = Len(fixable_results)

\* C24: every result a registered probe returns carries the name of the
\* probe's class, and the names of the registry are pairwise distinct, so
\* the lookup by result name of the fix pass selects the class that produced
\* the result.
C24_ResultNameIsProbeName ==
    /\ \A i, j \in 1..Len(ALL_CHECKS) :
            i # j => ClassName(ALL_CHECKS[i]) # ClassName(ALL_CHECKS[j])
    /\ cmd = "doctor" =>
        /\ \A i \in 1..Len(results) :
            /\ results[i].name = ClassName(ALL_CHECKS[i])
            /\ FindClass(results[i].name) = ALL_CHECKS[i]
        /\ pc = "fix_call" =>
            /\ check.kind = ALL_CHECKS[Pos(fixable_results[k].name)]
            /\ trace[Len(trace)].name = fixable_results[k].name
    /\ (cmd = "check" /\ result # NoResult) =>
            result.name = ClassName(check.kind)

\* the fix pass has found, by the name of its result, the API keys probe and
\* has run a new instance of it
C24_Witness ==
    /\ cmd = "doctor"
    /\ pc = "fix_call"
    /\ fixable_results[k].name = APIKeys_name
    /\ check.kind = "APIKeysCheck"
    /\ Len(results) = Len(ALL_CHECKS)

\* C25: in batch fix mode no fix and no second run of a probe is made, and
\* no guidance printed, before the initial run of every registered probe has
\* returned: the calls of the fix pass come after the whole run pass.
C25_FixPassAfterWholeRunPass ==
    cmd = "doctor" =>
        \A j \in 1..Len(trace) :
            trace[j].phase = "fix" =>
                /\ j > Len(ALL_CHECKS)
                /\ Len(results) = Len(ALL_CHECKS)
                /\ \A i \in 1..Len(ALL_CHECKS) :
                    /\ IsInitialRun(trace[i])
                    /\ ~trace[i].raised
                    /\ trace[i].name = ClassName(ALL_CHECKS[i])
                /\ \A i \in 1..Len(trace) : IsInitialRun(trace[i]) => i < j

\* the fix pass has made its first call, the second run of Node.js, right
\* after the seven runs of the initial pass
C25_Witness ==
    /\ cmd = "doctor"
    /\ fix
    /\ Len(trace) = Len(ALL_CHECKS) + 1
    /\ trace[Len(trace)].phase = "fix"
    /\ trace[Len(trace)].op = "run"
    /\ trace[Len(trace)].name = NodeJS_name

(***************************************************************************)
(* C26: when an external process or network call made during a registered  *)
(* probe's run times out, run does not raise and the Result it returns has *)
(* status Warn or Fail, never Pass.                                        *)
(***************************************************************************)
LastCallIsRun == trace # <<>> /\ trace[Len(trace)].op = "run"

RunTimedOut ==
    /\ check.kind \in Classes
    /\ LastCallIsRun
    /\ env[check.kind] \in TimeoutFacts(check.kind)

C26_TimeoutGivesWarnOrFail ==
    RunTimedOut =>
        /\ ~trace[Len(trace)].raised
        /\ result.status \in {WARN, FAIL}

(***************************************************************************)
(* C27: every batch invocation, with or without fix, eventually completes  *)
(* and returns its counts, provided each external process or network call  *)
(* returns or hits its timeout: the run pass takes one step per registry   *)
(* entry and the fix pass one step per filtered Result, with no retry and  *)
(* no loop back.  Stated on finite runs: the numbers of steps are bounded  *)
(* as said, and the invocation is never left without a next step before it *)
(* has returned its counts.                                                *)
(***************************************************************************)
IsFixPassRun(e) == e.op = "run" /\ e.phase = "fix"

C27_BatchCompletesInBoundedSteps ==
    cmd = "doctor" =>
        /\ Len(InitialRuns) <= Len(ALL_CHECKS)
        /\ Len(SelectSeq(trace, IsFixPassRun)) <= Len(fixable_results)
        /\ Len(HandledEvents) <= Len(fixable_results)
        /\ pc = "done" \/ ENABLED Next

(***************************************************************************)
(* C28: the Docker probe's run never returns status Fail, whatever the     *)
(* environment: Docker absent gives Warn, Docker installed with the daemon *)
(* not running gives Warn with can_auto_fix true, and Docker installed and *)
(* running gives Pass whether or not Compose is found.                     *)
(***************************************************************************)
DockerAbsent == env["DockerCheck"] \in {"absent", "version_timeout"}
DockerNotRunning == env["DockerCheck"] \in {"stopped", "info_timeout"}
DockerRunning ==
    env["DockerCheck"] \in {"running", "running_nocompose", "compose_timeout"}

C28_DockerRunNeverFails ==
    (check.kind = "DockerCheck" /\ LastCallIsRun) =>
        /\ ~trace[Len(trace)].raised
        /\ result.status # FAIL
        /\ DockerAbsent => result.status = WARN
        /\ DockerNotRunning => result.status = WARN /\ result.can_auto_fix
        /\ DockerRunning => result.status = PASS

\* Docker found running without Compose, and reported as Pass
C28_Witness ==
    /\ check.kind = "DockerCheck"
    /\ LastCallIsRun
    /\ env["DockerCheck"] = "running_nocompose"
    /\ ~check.st.compose_version
    /\ result.status = PASS

(***************************************************************************)
(* C29: in batch fix mode, whether fix is invoked for a probe depends only *)
(* on the Result of the initial pass (status Fail or Warn and can_auto_fix *)
(* true); the Result of the re-run is discarded, so fix is invoked even    *)
(* when the re-run reports Pass because an earlier probe's fix changed the *)
(* environment.                                                            *)
(***************************************************************************)
IsBatchFix(e) == e.op = "fix" /\ e.phase = "fix"

\* the Result of the initial pass qualifies for fix
Qualifies(r) == IsFailOrWarn(r) /\ r.can_auto_fix

\* the filtered Results the fix loop has gone past
Handled == SubSeq(fixable_results, 1, k - 1)

C29_FixDecidedByInitialResultOnly ==
    (cmd = "doctor" /\ ~json_output) =>
        /\ \A j \in 1..Len(trace) :
              IsBatchFix(trace[j]) => Qualifies(results[Pos(trace[j].name)])
        /\ \A i \in 1..Len(Handled) :
              Qualifies(Handled[i]) =>
                  \E j \in 1..Len(trace) :
                      IsBatchFix(trace[j]) /\ trace[j].name = Handled[i].name
        /\ pc = "fix_call" => Qualifies(fixable_results[k]) /\ ENABLED FixCall

\* the installer run for OpenClaw wrote the configuration; the re-run of the
\* Config probe reported Pass and its fix was called all the same
C29_Witness ==
    /\ cmd = "doctor"
    /\ "installer_succeeded" \in effects
    /\ trace # <<>>
    /\ IsBatchFix(trace[Len(trace)])
    /\ trace[Len(trace)].name = Config_name
    /\ results[Pos(Config_name)].status = WARN
    /\ Run("ConfigCheck", env["ConfigCheck"]).result.status = PASS

(***************************************************************************)
(* C30: in JSON batch mode no probe's fix is ever invoked and each         *)
(* registered probe's run is invoked exactly once, whether or not the fix  *)
(* flag is set: every call is a run of the single pass, nothing is written *)
(* to the machine, no probe is run twice, and when the output is built     *)
(* every registered probe has been run.                                    *)
(***************************************************************************)
JsonPassEnded == pc \in {"json_summary", "done"}

====
